---- MODULE Spec2Model ----
(***************************************************************************)
(* Model of the guideline cache of server-with-caching.js: the two module  *)
(* variables guidelinesCache / cacheTimestamp, the helper                  *)
(* getCachedGuidelines, the upstream fetch fetchAppleGuidelines, and the   *)
(* handlers that read or fill the cache (GET /api/guidelines,              *)
(* POST /api/guidelines/refresh, POST /api/scan/upload and the startup     *)
(* prefetch of app.listen).  Node runs one handler at a time and switches  *)
(* only at an await, so every action is the code between two awaits.       *)
(***************************************************************************)
EXTENDS Integers, Sequences, FiniteSets, TLC

(* ---------------- bounds of the model ---------------- *)
\* number of client request slots (slot 0 is the startup prefetch)
NumClients == 1
\* total number of upstream fetches issued in one behaviour
MaxFetches == 3
\* number of clock advances in one behaviour
MaxTicks == 1

(* ---------------- program constants ---------------- *)
CACHE_DURATION == 24 * 60 * 60 * 1000

\* JavaScript null for cacheTimestamp (falsy, like 0; Date.now() is never 0)
NullTs == 0
\* JavaScript null for guidelinesCache
NullDoc == [null |-> TRUE]
\* an annotation that is absent from an object
NoAge == -1

GuidelinesUrl == "https://developer.apple.com/app-store/review/guidelines/"
FallbackError == "Failed to fetch live guidelines, using fallback"
StaleError == "Failed to fetch fresh guidelines, serving stale cache"

Procs == 0 .. NumClients
Clients == 1 .. NumClients

\* clock advances (ms): one millisecond short of the freshness window, and
\* exactly the freshness window
Deltas == {CACHE_DURATION - 1, CACHE_DURATION}

\* what the upstream page looks like to the scraper: each element is one
\* <article><section>, TRUE when it has both an h2 title and a p content
Pages == { <<>>, <<FALSE, TRUE>> }

\* outcome of axios.get: the request throws (network error, timeout,
\* non-2xx) or resolves with a page
Upstreams == { [ok |-> FALSE, page |-> <<>>] } \cup { [ok |-> TRUE, page |-> p] : p \in Pages }

\* outcome of exec(): error set or not, and what stdout holds
ExecOutcomes == [error : BOOLEAN, stdout : {"", "json", "text"}]

\* now: Date.now(); fetches: fetchAppleGuidelines calls made so far;
\* docFill / tsFill: the number of the fetch that wrote the stored document /
\* the stored timestamp; reqs: the handlers in progress; done: the handler
\* run that finished last, with what it returned and sent
VARIABLES now, ticks, fetches, guidelinesCache, cacheTimestamp,
          docFill, tsFill, reqs, done

\* pdf: one run of generateCompliancePDF (pdf-generator.js): its input, its
\* cursor y and the pages laid out so far
VARIABLE pdf

\* enh: one POST /api/scan/enhanced request of the server that install.sh
\* writes (server.js)
VARIABLE enh

\* gl: one GET /api/guidelines request of server.js (install.sh 194-201)
VARIABLE gl

\* env: whether the scanner process and the guideline site ever answer
VARIABLE env

\* health: what GET /health of the caching server answered last
VARIABLE health

\* dl: what a report request of server.js (install.sh 533-565) for the
\* scanId of the enhanced scan answered last
VARIABLE dl

cacheVars == <<now, ticks, fetches, guidelinesCache, cacheTimestamp,
               docFill, tsFill, reqs, done>>

vars == <<now, ticks, fetches, guidelinesCache, cacheTimestamp,
          docFill, tsFill, reqs, done, pdf, enh, gl, env, health, dl>>

(* ---------------- pure helpers ---------------- *)

RECURSIVE scrape(_, _)
\* $('article section').each((i, section) => { if (title && content) push })
scrape(page, i) ==
    IF i > Len(page) THEN <<>>
    ELSE IF page[i]
         THEN <<[section |-> i, title |-> "h2"]>> \o scrape(page, i + 1)
         ELSE scrape(page, i + 1)

noGuidelines == <<>>

\* fallbackGuidelines(), lines 123-151
fallbackGuidelines ==
    << [section |-> 1, title |-> "Safety"],
       [section |-> 2, title |-> "Performance"],
       [section |-> 3, title |-> "Business"],
       [section |-> 4, title |-> "Design"],
       [section |-> 5, title |-> "Legal"] >>

fetchAppleGuidelinesRethrows(up, t) ==
    IF up.ok
    THEN [threw |-> FALSE,
          doc |-> [lastUpdated |-> t, url |-> GuidelinesUrl,
                   sections |-> IF Len(scrape(up.page, 1)) > 0
                                THEN scrape(up.page, 1) ELSE fallbackGuidelines,
                   error |-> ""]]
    ELSE [threw |-> TRUE,
          doc |-> [lastUpdated |-> t, url |-> GuidelinesUrl,
                   sections |-> fallbackGuidelines,
                   error |-> FallbackError]]

\* fetchAppleGuidelines: the whole body is inside try/catch, the catch
\* returns the fallback document: the promise never rejects.
fetchAppleGuidelines(up, t) ==
    IF up.ok
    THEN [threw |-> FALSE,
          doc |-> [lastUpdated |-> t, url |-> GuidelinesUrl,
                   sections |-> IF Len(scrape(up.page, 1)) > 0
                                THEN scrape(up.page, 1) ELSE fallbackGuidelines,
                   error |-> ""]]
    ELSE [threw |-> FALSE,
          doc |-> [lastUpdated |-> t, url |-> GuidelinesUrl,
                   sections |-> fallbackGuidelines,
                   error |-> FallbackError]]

IsFreshInclusive(cache, ts, t) ==
    cache # NullDoc /\ ts # NullTs /\ t - ts <= CACHE_DURATION

\* the freshness test of getCachedGuidelines (line 158)
IsFresh(cache, ts, t) ==
    cache # NullDoc /\ ts # NullTs /\ t - ts < CACHE_DURATION

\* Math.floor((now - cacheTimestamp) / 1000 / 60)
cacheAgeMinutes(t, ts) == ((t - ts) \div 1000) \div 60

\* { ...doc, cached, stale, cacheAge, error } ; an object returned as is
\* has cached = FALSE, stale = FALSE, cacheAge = NoAge (fields absent)
Annotate(doc, c, s, age, err) ==
    [lastUpdated |-> doc.lastUpdated, url |-> doc.url, sections |-> doc.sections,
     error |-> err, cached |-> c, stale |-> s, cacheAge |-> age]

Plain(doc) == Annotate(doc, FALSE, FALSE, NoAge, doc.error)

\* the document part of a returned object
Content(x) == [lastUpdated |-> x.lastUpdated, url |-> x.url, sections |-> x.sections]

NoGuidelines == [null |-> TRUE]

\* runGreenlight: reject when exec reports an error and stdout is empty
runGreenlight(o) ==
    IF o.error /\ o.stdout = "" THEN [rejected |-> TRUE, stdout |-> ""]
    ELSE [rejected |-> FALSE, stdout |-> o.stdout]

\* try { JSON.parse(stdout) } catch { rawOutput }
parseResults(stdout) == IF stdout = "json" THEN "parsed" ELSE "raw"

(* ---------------- requests ---------------- *)

\* the value getCachedGuidelines settled with, for the request that called it
NoRet == [state |-> "none", value |-> NoGuidelines]

NoRes == [status |-> 0, guidelines |-> NoGuidelines, message |-> "", results |-> "none"]

\* kind: which handler; pc: where it is suspended; now: the `now` captured
\* by getCachedGuidelines; fill: number of the fetch it issued; up: how the
\* axios call of that fetch ended
IdleReq == [kind |-> "none", pc |-> "idle", proc |-> 0, now |-> 0, fill |-> 0,
            up |-> "none", results |-> "none", ipaOnDisk |-> FALSE,
            ret |-> NoRet, res |-> NoRes]

\* the handlers that obtain guidelines through getCachedGuidelines
GetKinds == {"get", "upload", "preflight", "startup"}

\* the handlers that run the scanner on a stored IPA
ScanKinds == {"upload", "preflight"}

\* the error of the outer catch (lines 282 and 374)
failMessage(kind) == IF kind = "preflight" THEN "Preflight scan failed" ELSE "Scan failed"

CacheInit ==
    /\ now = 1
    /\ ticks = 0
    /\ fetches = 1
    /\ guidelinesCache = NullDoc
    /\ cacheTimestamp = NullTs
    /\ docFill = 0
    /\ tsFill = 0
    \* app.listen's callback has called getCachedGuidelines, which found no
    \* cache and is waiting for fetchAppleGuidelines
    /\ reqs = [p \in Procs |->
                 IF p = 0
                 THEN [IdleReq EXCEPT !.kind = "startup", !.pc = "fetching",
                                      !.now = 1, !.fill = 1]
                 ELSE IdleReq]
    /\ done = IdleReq

\* no report is being rendered
PdfIdle == [pc |-> "idle"]

\* no enhanced scan is in progress
EnhIdle == [pc |-> "idle"]

\* no guideline request of server.js is in progress
GlIdle == [pc |-> "idle", res |-> NoGuidelines]

\* the scanner and the guideline site answer
Responsive == [scanner |-> "responds", upstream |-> "responds"]

\* no report has been requested
NoDownload == [asked |-> FALSE, known |-> FALSE, status |-> 0, content |-> "none"]

\* GET /health has not been asked
NoHealth == [asked |-> FALSE, cached |-> FALSE, stale |-> FALSE, age |-> NoAge]

Init ==
    /\ CacheInit /\ pdf = PdfIdle /\ enh = EnhIdle /\ gl = GlIdle /\ env = Responsive
    /\ health = NoHealth /\ dl = NoDownload

\* a handler run that has sent its response leaves reqs and is kept in done
Settle(p, rec) ==
    IF rec.pc = "done"
    THEN /\ reqs' = [reqs EXCEPT ![p] = IdleReq]
         /\ done' = [rec EXCEPT !.proc = p]
    ELSE /\ reqs' = [reqs EXCEPT ![p] = rec]
         /\ UNCHANGED done

\* what the caller of getCachedGuidelines does with the settled promise
Finish(rec, ret) ==
    IF rec.kind = "get"
    THEN \* GET /api/guidelines: res.json(guidelines) / res.status(500)
         [rec EXCEPT !.pc = "done", !.ret = ret,
              !.res = IF ret.state = "returned"
                      THEN [status |-> 200, guidelines |-> ret.value,
                            message |-> "", results |-> "none"]
                      ELSE [status |-> 500, guidelines |-> NoGuidelines,
                            message |-> "Failed to fetch guidelines",
                            results |-> "none"]]
    ELSE IF rec.kind \in ScanKinds
    THEN \* POST /api/scan/upload, POST /api/scan/preflight:
         \* res.json({..., results, guidelines}) or the outer catch: unlink,
         \* res.status(500)
         [rec EXCEPT !.pc = "done", !.ret = ret, !.ipaOnDisk = FALSE,
              !.res = IF ret.state = "returned"
                      THEN [status |-> 200, guidelines |-> ret.value,
                            message |-> "", results |-> rec.results]
                      ELSE [status |-> 500, guidelines |-> NoGuidelines,
                            message |-> failMessage(rec.kind), results |-> "none"]]
    ELSE \* app.listen callback: only logs
         [rec EXCEPT !.pc = "done", !.ret = ret]

hitValueRestamped(cache, ts, t) ==
    Annotate([cache EXCEPT !.lastUpdated = t], TRUE, FALSE,
             cacheAgeMinutes(t, ts), cache.error)

\* the hit branch of getCachedGuidelines (lines 158-164)
hitValue(cache, ts, t) ==
    Annotate(cache, TRUE, FALSE, cacheAgeMinutes(t, ts), cache.error)

CallGetCachedBehindFetch(p, rec) ==
    IF /\ IsFresh(guidelinesCache, cacheTimestamp, now)
       /\ \A q \in Procs : reqs[q].pc # "fetching"
    THEN /\ Settle(p, Finish([rec EXCEPT !.now = now],
                              [state |-> "returned",
                               value |-> hitValue(guidelinesCache, cacheTimestamp, now)]))
         /\ UNCHANGED fetches
    ELSE /\ fetches < MaxFetches
         /\ Settle(p, [rec EXCEPT !.pc = "fetching", !.now = now,
                                  !.fill = fetches + 1])
         /\ fetches' = fetches + 1

\* getCachedGuidelines up to its first await: a fresh entry is returned at
\* once, otherwise fetchAppleGuidelines is called and the caller suspends
CallGetCached(p, rec) ==
    IF IsFresh(guidelinesCache, cacheTimestamp, now)
    THEN /\ Settle(p, Finish([rec EXCEPT !.now = now],
                              [state |-> "returned",
                               value |-> hitValue(guidelinesCache, cacheTimestamp, now)]))
         /\ UNCHANGED fetches
    ELSE /\ fetches < MaxFetches
         /\ Settle(p, [rec EXCEPT !.pc = "fetching", !.now = now,
                                  !.fill = fetches + 1])
         /\ fetches' = fetches + 1

\* the two assignments that fill the cache (lines 168-169 and 219-220);
\* no await separates them
fillCacheBroken(doc, t, fill) ==
    [cache |-> doc, ts |-> IF t > cacheTimestamp THEN t ELSE cacheTimestamp,
     docFill |-> fill, tsFill |-> IF t > cacheTimestamp THEN fill ELSE tsFill]

fillCache(doc, t, fill) ==
    [cache |-> doc, ts |-> t, docFill |-> fill, tsFill |-> fill]

CanStart(p) ==
    /\ p \in Clients
    /\ reqs[p].pc = "idle"

\* GET /api/guidelines
StartGet(p) ==
    /\ CanStart(p)
    /\ CallGetCached(p, [IdleReq EXCEPT !.kind = "get"])
    /\ UNCHANGED <<now, ticks, guidelinesCache, cacheTimestamp, docFill, tsFill>>
    /\ UNCHANGED <<pdf, enh, gl, env, health, dl>>

\* POST /api/guidelines/refresh, up to its await
StartRefresh(p) ==
    /\ CanStart(p)
    /\ fetches < MaxFetches
    /\ Settle(p, [IdleReq EXCEPT !.kind = "refresh", !.pc = "fetching",
                                 !.fill = fetches + 1])
    /\ fetches' = fetches + 1
    /\ UNCHANGED <<now, ticks, guidelinesCache, cacheTimestamp, docFill, tsFill>>
    /\ UNCHANGED <<pdf, enh, gl, env, health, dl>>

\* POST /api/scan/upload, up to the await of runGreenlight
StartUpload(p) ==
    /\ CanStart(p)
    /\ \E hasFile \in BOOLEAN :
         Settle(p, IF hasFile
                   THEN [IdleReq EXCEPT !.kind = "upload", !.pc = "scanning",
                                        !.ipaOnDisk = TRUE]
                   ELSE [IdleReq EXCEPT !.kind = "upload", !.pc = "done",
                           !.res = [status |-> 400, guidelines |-> NoGuidelines,
                                    message |-> "No IPA file uploaded",
                                    results |-> "none"]])
    /\ UNCHANGED <<now, ticks, fetches, guidelinesCache, cacheTimestamp, docFill, tsFill>>
    /\ UNCHANGED <<pdf, enh, gl, env, health, dl>>

\* POST /api/scan/preflight, up to the await of runGreenlight: multer has
\* stored the file before the handler runs, and the 400 of lines 335-337
\* returns without unlinking it
StartPreflight(p) ==
    /\ CanStart(p)
    /\ \E projectPath \in BOOLEAN, hasFile \in BOOLEAN :
         Settle(p, IF projectPath
                   THEN [IdleReq EXCEPT !.kind = "preflight", !.pc = "scanning",
                                        !.ipaOnDisk = hasFile]
                   ELSE [IdleReq EXCEPT !.kind = "preflight", !.pc = "done",
                           !.ipaOnDisk = hasFile,
                           !.res = [status |-> 400, guidelines |-> NoGuidelines,
                                    message |-> "Project path is required",
                                    results |-> "none"]])
    /\ UNCHANGED <<now, ticks, fetches, guidelinesCache, cacheTimestamp, docFill, tsFill>>
    /\ UNCHANGED <<pdf, enh, gl, env, health, dl>>

\* runGreenlight settles: parse, unlink, then the response object is built,
\* which calls getCachedGuidelines
ScanReturn(p) ==
    /\ reqs[p].pc = "scanning"
    /\ \E o \in ExecOutcomes :
         LET rr == runGreenlight(o) IN
         IF rr.rejected
         THEN /\ Settle(p, [reqs[p] EXCEPT !.pc = "done", !.ipaOnDisk = FALSE,
                               !.res = [status |-> 500, guidelines |-> NoGuidelines,
                                        message |-> failMessage(reqs[p].kind),
                                        results |-> "none"]])
              /\ UNCHANGED fetches
         ELSE CallGetCached(p, [reqs[p] EXCEPT !.results = parseResults(rr.stdout),
                                               !.ipaOnDisk = FALSE])
    /\ UNCHANGED <<now, ticks, guidelinesCache, cacheTimestamp, docFill, tsFill>>
    /\ UNCHANGED <<pdf, enh, gl, env, health, dl>>

\* fetchAppleGuidelines settles for a caller of getCachedGuidelines: the
\* code after the await of line 168, and its catch
GetFetchReturn(p) ==
    /\ reqs[p].pc = "fetching"
    /\ reqs[p].kind \in GetKinds
    /\ \E up \in Upstreams :
         LET fr == fetchAppleGuidelines(up, now)
             rec == [reqs[p] EXCEPT !.up = IF up.ok THEN "ok" ELSE "fail"]
         IN
         IF ~fr.threw
         THEN LET f == fillCache(fr.doc, rec.now, rec.fill) IN
              /\ guidelinesCache' = f.cache
              /\ cacheTimestamp' = f.ts
              /\ docFill' = f.docFill
              /\ tsFill' = f.tsFill
              /\ Settle(p, Finish(rec, [state |-> "returned", value |-> Plain(f.cache)]))
         ELSE /\ UNCHANGED <<guidelinesCache, cacheTimestamp, docFill, tsFill>>
              /\ Settle(p, IF guidelinesCache # NullDoc
                            THEN Finish(rec, [state |-> "returned",
                                              value |-> Annotate(guidelinesCache, TRUE, TRUE,
                                                                 NoAge, StaleError)])
                            ELSE Finish(rec, [state |-> "threw", value |-> NoGuidelines]))
    /\ UNCHANGED <<now, ticks, fetches>>
    /\ UNCHANGED <<pdf, enh, gl, env, health, dl>>

\* fetchAppleGuidelines settles for POST /api/guidelines/refresh
RefreshFetchReturn(p) ==
    /\ reqs[p].pc = "fetching"
    /\ reqs[p].kind = "refresh"
    /\ \E up \in Upstreams :
         LET fr == fetchAppleGuidelines(up, now)
             rec == [reqs[p] EXCEPT !.up = IF up.ok THEN "ok" ELSE "fail"]
         IN
         IF ~fr.threw
         THEN LET f == fillCache(fr.doc, now, rec.fill) IN
              /\ guidelinesCache' = f.cache
              /\ cacheTimestamp' = f.ts
              /\ docFill' = f.docFill
              /\ tsFill' = f.tsFill
              /\ Settle(p, [rec EXCEPT !.pc = "done",
                               !.res = [status |-> 200, guidelines |-> Plain(f.cache),
                                        message |-> "Guidelines refreshed",
                                        results |-> "none"]])
         ELSE /\ UNCHANGED <<guidelinesCache, cacheTimestamp, docFill, tsFill>>
              /\ Settle(p, [rec EXCEPT !.pc = "done",
                               !.res = [status |-> 500, guidelines |-> NoGuidelines,
                                        message |-> "Failed to refresh guidelines",
                                        results |-> "none"]])
    /\ UNCHANGED <<now, ticks, fetches>>
    /\ UNCHANGED <<pdf, enh, gl, env, health, dl>>

\* time passes (Date.now() read as a non-decreasing clock)
Tick ==
    /\ ticks < MaxTicks
    /\ \E d \in Deltas : now' = now + d
    /\ ticks' = ticks + 1
    /\ UNCHANGED <<fetches, guidelinesCache, cacheTimestamp, docFill, tsFill, reqs, done>>
    /\ UNCHANGED <<pdf, enh, gl, env, health, dl>>

Next ==
    \/ \E p \in Clients : StartGet(p)
    \/ \E p \in Clients : StartRefresh(p)
    \/ \E p \in Clients : StartUpload(p)
    \/ \E p \in Clients : ScanReturn(p)
    \/ \E p \in Procs : GetFetchReturn(p)
    \/ \E p \in Clients : RefreshFetchReturn(p)
    \/ Tick

Spec == Init /\ [][Next]_vars

\* lines 189-190 of GET /health: guidelineAge is null without a timestamp;
\* isStale = guidelineAge && guidelineAge > CACHE_DURATION is true only for
\* a non-zero age above the duration (else null, 0 or false)
healthReport(cache, ts, t) ==
    LET hasAge == ts # NullTs /\ t - ts # 0 IN
    [asked |-> TRUE,
     cached |-> cache # NullDoc,
     stale |-> hasAge /\ t - ts > CACHE_DURATION,
     age |-> IF hasAge THEN cacheAgeMinutes(t, ts) ELSE NoAge]

afterHealthTouch(ts, t) == t

\* GET /health only reads cacheTimestamp (lines 189, 200)
afterHealth(ts, t) == ts

\* GET /health (lines 188-204): synchronous, answers from the cache state
Health ==
    /\ health' = healthReport(guidelinesCache, cacheTimestamp, now)
    /\ cacheTimestamp' = afterHealth(cacheTimestamp, now)
    /\ UNCHANGED <<now, ticks, fetches, guidelinesCache, docFill, tsFill, reqs, done>>
    /\ UNCHANGED <<pdf, enh, gl, env, dl>>

\* the guideline routes with GET /health
NextHealth ==
    \/ \E p \in Clients : StartGet(p)
    \/ \E p \in Clients : StartRefresh(p)
    \/ \E p \in Procs : GetFetchReturn(p)
    \/ \E p \in Clients : RefreshFetchReturn(p)
    \/ Tick
    \/ Health

SpecHealth == Init /\ [][NextHealth]_vars

\* the handlers that store an IPA, with the guideline reads they end in
NextScan ==
    \/ \E p \in Clients : StartUpload(p)
    \/ \E p \in Clients : StartPreflight(p)
    \/ \E p \in Clients : ScanReturn(p)
    \/ \E p \in Procs : GetFetchReturn(p)
    \/ Tick

SpecScan == Init /\ [][NextScan]_vars

TypeOK ==
    /\ now \in Nat /\ ticks \in 0 .. MaxTicks
    /\ fetches \in 1 .. MaxFetches
    /\ cacheTimestamp \in Nat

(* ---------------- the PDF renderer (pdf-generator.js) ---------------- *)

\* bounds of the renderer's inputs
MaxFindings == 2
MaxRecs == 2

\* PDFKit 'LETTER' page height in points, and the margins of line 13
LetterHeight == 792
MarginTop == 50
MarginBottom == 50
\* the lowest y at which content still lies inside the page body
PageBodyLimit == LetterHeight - MarginBottom
\* the thresholds of the page checks (lines 90, 145, 155) and the footer's y
FindingBreakAt == 700
HeadingBreakAt == 650
FooterY == 350

\* JavaScript strings whose case matters are sequences of character codes
S_CRITICAL == <<67, 82, 73, 84, 73, 67, 65, 76>>
S_WARNING == <<87, 65, 82, 78, 73, 78, 71>>
S_WARN == <<87, 65, 82, 78>>
S_INFO == <<73, 78, 70, 79>>
S_critical == <<99, 114, 105, 116, 105, 99, 97, 108>>
S_warn == <<119, 97, 114, 110>>
S_info == <<105, 110, 102, 111>>
S_constructor == <<99, 111, 110, 115, 116, 114, 117, 99, 116, 111, 114>>
S_toString == <<116, 111, 83, 116, 114, 105, 110, 103>>
S_valueOf == <<118, 97, 108, 117, 101, 79, 102>>
\* the value undefined (a finding without a severity field)
Undefined == <<0>>

\* String.prototype.toLowerCase
toLowerCase(str) ==
    [i \in DOMAIN str |-> IF str[i] >= 65 /\ str[i] <= 90 THEN str[i] + 32 ELSE str[i]]

\* properties every object literal inherits from Object.prototype: a lookup
\* obj[key] finds them although they are not keys of the literal
ObjectPrototypeKeys == {S_constructor, S_toString, S_valueOf}

\* severityColors[finding.severity] || '#6B7280' (lines 96-101); an
\* inherited property is a function, truthy and not a colour
severityColor(severity) ==
    IF severity = S_CRITICAL THEN "#EF4444"
    ELSE IF severity = S_WARNING THEN "#F59E0B"
    ELSE IF severity = S_INFO THEN "#3B82F6"
    ELSE IF severity \in ObjectPrototypeKeys THEN "[Function]"
    ELSE "#6B7280"

\* getSeverityColor of the browser component (IOSComplianceScanner.jsx)
getSeverityColor(severity) ==
    LET key == IF severity = Undefined THEN Undefined ELSE toLowerCase(severity) IN
    IF key = S_critical THEN "#dc2626"
    ELSE IF key = S_warn THEN "#f59e0b"
    ELSE IF key = S_info THEN "#3b82f6"
    ELSE "#6b7280"

\* the findings the renderer is given: severity, heightOfString of the
\* description, whether a guideline is named, heightOfString of the fix
\* suggestion (0: none)
FindingPool ==
    { [severity |-> S_CRITICAL, descH |-> 12, guideline |-> TRUE, fixH |-> 0],
      [severity |-> S_WARNING, descH |-> 380, guideline |-> FALSE, fixH |-> 24],
      [severity |-> S_INFO, descH |-> 700, guideline |-> FALSE, fixH |-> 0],
      [severity |-> S_WARN, descH |-> 12, guideline |-> FALSE, fixH |-> 0],
      [severity |-> S_critical, descH |-> 12, guideline |-> FALSE, fixH |-> 0],
      [severity |-> S_constructor, descH |-> 12, guideline |-> FALSE, fixH |-> 0],
      [severity |-> Undefined, descH |-> 12, guideline |-> FALSE, fixH |-> 0] }

\* the recommendations: heightOfString of the description
RecPool == { [descH |-> 12], [descH |-> 700] }

SeqsUpTo(S, n) == UNION { [1 .. k -> S] : k \in 0 .. n }

\* scanResults.aiAnalysis: absent, or with / without riskLevel and with a
\* recommendations array
Analyses ==
    { [present |-> FALSE, riskLevel |-> FALSE, recommendations |-> <<>>] }
    \cup { [present |-> TRUE, riskLevel |-> r, recommendations |-> rs] :
             r \in BOOLEAN, rs \in SeqsUpTo(RecPool, MaxRecs) }

PdfInputs ==
    { [pc |-> "start", findings |-> fs, aiAnalysis |-> a, i |-> 1,
       y |-> 0, pages |-> << <<>> >>] :
        fs \in SeqsUpTo(FindingPool, MaxFindings), a \in Analyses }

\* y after the header and the executive summary (lines 40-84)
headerEnd(riskLevel) ==
    175 + 30 + 80 + 30 + (IF riskLevel THEN 20 + 25 ELSE 0) + 30

\* how far one finding moves y (lines 111-138)
findingHeight(f) ==
    30 + (f.descH + 10) + (IF f.guideline THEN 15 ELSE 0)
       + (IF f.fixH > 0 THEN 12 + f.fixH + 15 ELSE 0) + 20

\* how far one recommendation moves y (lines 160-165)
recHeight(r) == 18 + r.descH + 20

addTwoPages(pages) == Append(Append(pages, <<>>), <<>>)

\* doc.addPage()
addPage(pages) == Append(pages, <<>>)

placeFront(pages, blk) ==
    [pages EXCEPT ![Len(pages)] = <<blk>> \o @]

\* drawing at the cursor puts a block on the current (last) page
place(pages, blk) ==
    [pages EXCEPT ![Len(pages)] = Append(@, blk)]

footerBreakWhenFull(y) == y > FindingBreakAt

\* line 172: the footer always gets a page of its own
footerBreak(y) == TRUE

Block(kind, item, y, h, color) ==
    [kind |-> kind, item |-> item, y |-> y, h |-> h, color |-> color]

NoItem == [none |-> TRUE]

PdfFrame == UNCHANGED <<cacheVars, enh, gl, env, health, dl>>

\* header and executive summary, lines 28-84
PdfHeader ==
    /\ pdf.pc = "start"
    /\ LET end == headerEnd(pdf.aiAnalysis.present /\ pdf.aiAnalysis.riskLevel) IN
       pdf' = [pdf EXCEPT !.pc = "findings", !.y = end,
                 !.pages = place(@, Block("header", NoItem, MarginTop,
                                          end - MarginTop, ""))]
    /\ PdfFrame

\* one turn of findings.forEach, lines 88-139
PdfFinding ==
    /\ pdf.pc = "findings"
    /\ pdf.i <= Len(pdf.findings)
    /\ LET f == pdf.findings[pdf.i]
           brk == pdf.y > FindingBreakAt
           y0 == IF brk THEN MarginTop ELSE pdf.y
           pg == IF brk THEN addPage(pdf.pages) ELSE pdf.pages
       IN pdf' = [pdf EXCEPT !.i = @ + 1, !.y = y0 + findingHeight(f),
                    !.pages = place(pg, Block("finding", f, y0, findingHeight(f),
                                              severityColor(f.severity)))]
    /\ PdfFrame

\* after the findings: the recommendations heading (lines 144-152), if
\* aiAnalysis.recommendations is there
PdfHeading ==
    /\ pdf.pc = "findings"
    /\ pdf.i > Len(pdf.findings)
    /\ IF pdf.aiAnalysis.present
       THEN LET brk == pdf.y > HeadingBreakAt
                y0 == IF brk THEN MarginTop ELSE pdf.y
                pg == IF brk THEN addPage(pdf.pages) ELSE pdf.pages
            IN pdf' = [pdf EXCEPT !.pc = "recs", !.i = 1, !.y = y0 + 30,
                         !.pages = place(pg, Block("heading", NoItem, y0, 30, ""))]
       ELSE pdf' = [pdf EXCEPT !.pc = "footer"]
    /\ PdfFrame

\* one turn of recommendations.forEach, lines 154-166
PdfRec ==
    /\ pdf.pc = "recs"
    /\ pdf.i <= Len(pdf.aiAnalysis.recommendations)
    /\ LET r == pdf.aiAnalysis.recommendations[pdf.i]
           brk == pdf.y > FindingBreakAt
           y0 == IF brk THEN MarginTop ELSE pdf.y
           pg == IF brk THEN addPage(pdf.pages) ELSE pdf.pages
       IN pdf' = [pdf EXCEPT !.i = @ + 1, !.y = y0 + recHeight(r),
                    !.pages = place(pg, Block("rec", r, y0, recHeight(r), ""))]
    /\ PdfFrame

\* the footer, lines 172-179
PdfFooter ==
    /\ \/ pdf.pc = "footer"
       \/ pdf.pc = "recs" /\ pdf.i > Len(pdf.aiAnalysis.recommendations)
    /\ LET pg == IF footerBreak(pdf.y) THEN addPage(pdf.pages) ELSE pdf.pages IN
       pdf' = [pdf EXCEPT !.pc = "done", !.y = FooterY,
                 !.pages = place(pg, Block("footer", NoItem, FooterY, 3 * 15, ""))]
    /\ PdfFrame

InitPdf ==
    /\ CacheInit /\ pdf \in PdfInputs /\ enh = EnhIdle /\ gl = GlIdle /\ env = Responsive
    /\ health = NoHealth /\ dl = NoDownload

NextPdf == PdfHeader \/ PdfFinding \/ PdfHeading \/ PdfRec \/ PdfFooter

SpecPdf == InitPdf /\ [][NextPdf]_vars

(* ---------------- the enhanced scan (server.js written by install.sh) ---------------- *)

\* scanResults.aiAnalysis before line 490 assigns it
NoAnalysis == [error |-> "", riskLevel |-> "", recommendations |-> "absent", model |-> ""]

\* a finding of a scan result; fixSuggestion is absent until
\* generateFixSuggestions adds it
Finding(severity, title) ==
    [severity |-> severity, title |-> title, fixSuggestion |-> "absent"]

Summary(status, critical, warnings, info, message) ==
    [status |-> status, critical |-> critical, warnings |-> warnings,
     info |-> info, message |-> message]

ScanResult(findings, summary) ==
    [null |-> FALSE, findings |-> findings, summary |-> summary,
     aiAnalysis |-> NoAnalysis]

\* the JSON text `null` parses to the value null
ScanNull ==
    [null |-> TRUE, findings |-> <<>>, summary |-> Summary("", 0, 0, 0, ""),
     aiAnalysis |-> NoAnalysis]

\* the result the handler builds itself, lines 464-483
fallbackResult ==
    ScanResult(<< Finding(S_INFO, "Basic Scan Only") >>,
               Summary("WARNING", 0, 1, 0,
                       "Greenlight CLI not available - basic scan only"))

\* what the scanner may print as JSON: counts that agree with the
\* findings, counts that do not, no findings, and the value null
ScanJson ==
    { ScanResult(<< Finding(S_CRITICAL, "f1") >>, Summary("BLOCKED", 1, 0, 0, "")),
      ScanResult(<< Finding(S_WARNING, "f1"), Finding(S_CRITICAL, "f2") >>,
                 Summary("PASS", 0, 0, 0, "")),
      ScanResult(<<>>, Summary("PASS", 0, 0, 0, "")),
      ScanNull }

\* stdout of the scanner: nothing, text that is not JSON, or JSON
EnhStdouts ==
    { [kind |-> "empty", doc |-> ScanNull], [kind |-> "text", doc |-> ScanNull] }
    \cup { [kind |-> "json", doc |-> d] : d \in ScanJson }

EnhExecOutcomes == { [error |-> e, stdout |-> s] : e \in BOOLEAN, s \in EnhStdouts }

NoExec == [error |-> FALSE, stdout |-> [kind |-> "none", doc |-> ScanNull]]

\* runGreenlight of server.js (install.sh 117-132)
runGreenlightEnh(o) ==
    [rejected |-> o.error /\ o.stdout.kind = "empty", stdout |-> o.stdout]

\* JSON.parse(result.stdout), line 459
JSONparse(stdout) ==
    [threw |-> stdout.kind # "json", value |-> stdout.doc]

\* lines 455-485: the scanner's parsed output, or the built-in result when
\* runGreenlight rejects or JSON.parse throws
scanStep(o) ==
    LET rr == runGreenlightEnh(o) IN
    IF rr.rejected \/ JSONparse(rr.stdout).threw
    THEN fallbackResult
    ELSE JSONparse(rr.stdout).value

\* how a call of analyzeWithAI ends: no API key, the API call throws, the
\* reply holds no {...}, the {...} of the reply is not JSON, or it is JSON,
\* whose recommendations are an array, something else, or missing
AiOutcomes ==
    { [kind |-> k, recs |-> "empty"] : k \in {"nokey", "throws", "nojson", "badjson"} }
    \cup { [kind |-> "json", recs |-> r] : r \in {"array", "notArray", "absent"} }

NoAi == [kind |-> "none", recs |-> "empty"]

\* analyzeWithAI, part_001 lines 25-102
analyzeWithAI(a) ==
    IF a.kind = "nokey"
    THEN [error |-> "No Anthropic API key found",
          riskLevel |-> "Unable to assess (no AI available)",
          recommendations |-> "empty", model |-> ""]
    ELSE IF a.kind = "nojson"
    THEN [error |-> "Failed to parse AI response", riskLevel |-> "Unable to assess",
          recommendations |-> "empty", model |-> ""]
    ELSE IF a.kind \in {"throws", "badjson"}
    THEN [error |-> "error.message", riskLevel |-> "Unable to assess (AI error)",
          recommendations |-> "empty", model |-> ""]
    ELSE [error |-> "", riskLevel |-> "High", recommendations |-> a.recs,
          model |-> "claude-sonnet-4"]

wantsFixesAlways(sr) == sr.findings # <<>>

\* line 493: fix suggestions are asked for
wantsFixes(sr) == sr.findings # <<>> /\ sr.aiAnalysis.error = ""

\* generateCompliancePDF throws on recommendations that are not an array
\* (line 154: forEach is not a function); the throw is caught at line 187
renderThrows(sr) == sr.aiAnalysis.recommendations = "notArray"

NoEnhRes == [status |-> 0, error |-> "", results |-> ScanNull, pdfReport |-> FALSE]

EnhStart ==
    [pc |-> "idle", host |-> TRUE, ipaOnDisk |-> FALSE, scanOut |-> NoExec,
     aiOut |-> NoAi, scanResults |-> ScanNull, key |-> FALSE, i |-> 1,
     original |-> <<>>, enhanced |-> <<>>, calls |-> <<>>, failed |-> FALSE,
     report |-> FALSE, res |-> NoEnhRes]

EnhFrame == UNCHANGED <<cacheVars, pdf, gl, env, health, dl>>

\* lines 445-452: no file is a 400; else mkdir of the reports directory
EnhRequest ==
    /\ enh.pc = "idle"
    /\ \E hasFile \in BOOLEAN, host \in BOOLEAN :
         enh' = IF hasFile
                THEN [enh EXCEPT !.pc = "mkdir", !.host = host, !.ipaOnDisk = TRUE]
                ELSE [enh EXCEPT !.pc = "done", !.host = host,
                        !.res = [NoEnhRes EXCEPT !.status = 400,
                                                 !.error = "No IPA file uploaded"]]
    /\ EnhFrame

\* line 452 is outside the try: when mkdir rejects, the handler's promise
\* rejects and nothing answers the request
EnhMkdir ==
    /\ enh.pc = "mkdir"
    /\ \E ok \in BOOLEAN :
         enh' = [enh EXCEPT !.pc = IF ok THEN "scanning" ELSE "hung"]
    /\ EnhFrame

\* runGreenlight settles (lines 455-485); analyzeWithAI is called (489)
EnhScanReturn ==
    /\ enh.pc = "scanning"
    /\ \E o \in EnhExecOutcomes :
         enh' = [enh EXCEPT !.pc = "analyzing", !.scanOut = o,
                            !.scanResults = scanStep(o)]
    /\ EnhFrame

\* analyzeWithAI settles; lines 490-496: the assignment throws on null
\* (outer catch, line 521), else fix suggestions or the renderer come next
EnhAnalysisReturn ==
    /\ enh.pc = "analyzing"
    /\ \E a \in AiOutcomes :
         IF enh.scanResults.null
         THEN enh' = [enh EXCEPT !.pc = "cleanup", !.aiOut = a, !.failed = TRUE]
         ELSE LET sr == [enh.scanResults EXCEPT !.aiAnalysis = analyzeWithAI(a)] IN
              enh' = [enh EXCEPT !.pc = IF wantsFixes(sr) THEN "fixkey" ELSE "rendering",
                                 !.aiOut = a, !.scanResults = sr,
                                 !.original = sr.findings]
    /\ EnhFrame

startCallsAll(findings) == [j \in 1 .. Len(findings) |-> j]

\* part_001 lines 118-140: the for-of loop awaits each call, so entering
\* it issues the call for the first finding only
startCalls(findings) == <<1>>

continuesOnSuccess(ok) == ok

\* part_001 lines 133-150: the try/catch is inside the loop body, so the
\* loop goes on to the next finding whether the call succeeded or not
continues(ok) == TRUE

pushFindingDropFailed(enhanced, f, ok) ==
    IF ok THEN Append(enhanced, [f EXCEPT !.fixSuggestion = "suggested"]) ELSE enhanced

\* part_001 lines 142-149: { ...finding, fixSuggestion } on success, the
\* finding itself when the call failed
pushFinding(enhanced, f, ok) ==
    Append(enhanced, IF ok THEN [f EXCEPT !.fixSuggestion = "suggested"] ELSE f)

\* generateFixSuggestions, part_001 lines 109-112: without a key the
\* findings come back as they are
EnhFixKey ==
    /\ enh.pc = "fixkey"
    /\ \E key \in BOOLEAN :
         enh' = IF key
                THEN [enh EXCEPT !.pc = "fixing", !.key = TRUE, !.i = 1,
                                 !.enhanced = <<>>,
                                 !.calls = startCalls(enh.scanResults.findings)]
                ELSE [enh EXCEPT !.pc = "rendering", !.key = key]
    /\ EnhFrame

\* one client.messages.create of the loop settles (part_001 lines 119-153);
\* after the last one findings are replaced (install.sh 495) and the
\* renderer is called (501)
EnhFixReturn ==
    /\ enh.pc = "fixing"
    /\ \E ok \in BOOLEAN :
         LET f == enh.scanResults.findings[enh.i]
             out == pushFinding(enh.enhanced, f, ok)
         IN IF enh.i < Len(enh.scanResults.findings) /\ continues(ok)
            THEN enh' = [enh EXCEPT !.i = @ + 1, !.enhanced = out,
                                    !.calls = Append(@, enh.i + 1)]
            ELSE enh' = [enh EXCEPT !.pc = "rendering", !.i = @ + 1, !.enhanced = out,
                                    !.scanResults.findings = out]
    /\ EnhFrame

resolvesAtEnd(finished) == TRUE

\* pdf-generator.js lines 179-185: the promise is resolved by the stream's
\* 'finish' event only, and rejected by its 'error' event or a throw
resolves(finished) == finished

\* generateCompliancePDF settles (line 501): resolved after the stream
\* finished, or rejected (stream error, or a throw while drawing)
EnhRenderReturn ==
    /\ enh.pc = "rendering"
    /\ \E streamOk \in BOOLEAN :
         LET ok == streamOk /\ ~renderThrows(enh.scanResults) IN
         enh' = [enh EXCEPT !.pc = "cleanup", !.report = ok, !.failed = ~resolves(ok)]
    /\ EnhFrame

\* fs.unlink settles: line 504 then the response of 507-519, where
\* req.get('host').includes throws without a Host header; or line 522 then
\* the 500 of 525-529
EnhCleanup ==
    /\ enh.pc = "cleanup"
    /\ enh' = IF enh.failed
              THEN [enh EXCEPT !.pc = "done", !.ipaOnDisk = FALSE,
                      !.res = [NoEnhRes EXCEPT !.status = 500,
                                               !.error = "Enhanced scan failed"]]
              ELSE IF ~enh.host
              THEN [enh EXCEPT !.ipaOnDisk = FALSE, !.failed = TRUE]
              ELSE [enh EXCEPT !.pc = "done", !.ipaOnDisk = FALSE,
                      !.res = [NoEnhRes EXCEPT !.status = 200,
                                               !.results = enh.scanResults,
                                               !.pdfReport = TRUE]]
    /\ EnhFrame

InitEnh ==
    /\ CacheInit /\ pdf = PdfIdle /\ enh = EnhStart /\ gl = GlIdle /\ env = Responsive
    /\ health = NoHealth /\ dl = NoDownload

NextEnh ==
    \/ EnhRequest
    \/ EnhMkdir
    \/ EnhScanReturn
    \/ EnhAnalysisReturn
    \/ EnhFixKey
    \/ EnhFixReturn
    \/ EnhRenderReturn
    \/ EnhCleanup

SpecEnh == InitEnh /\ [][NextEnh]_vars

(* ---------------- the report routes of server.js ---------------- *)

\* generateCompliancePDF has been called for this request
renderStarted ==
    \/ enh.pc = "rendering"
    \/ enh.pc \in {"cleanup", "done"} /\ ~enh.scanResults.null

\* reports/compliance-report-<scanId>.pdf: createWriteStream creates it
\* (pdf-generator.js 22), the stream's finish completes it (181), and no
\* code removes it
reportFile ==
    IF enh.report THEN "complete"
    ELSE IF renderStarted THEN "partial"
    ELSE "none"

\* GET /api/reports/:scanId and .../download (install.sh 533-565) for the
\* scanId of the enhanced scan: 404 when fs.stat fails, else the file as it
\* is on disk; known: the scanId has been sent to the client
ReportRequest ==
    /\ dl' = [asked |-> TRUE,
              known |-> enh.pc = "done" /\ enh.res.status = 200,
              status |-> IF reportFile = "none" THEN 404 ELSE 200,
              content |-> reportFile]
    /\ UNCHANGED <<cacheVars, pdf, enh, gl, env, health>>

NextReport ==
    \/ EnhRequest
    \/ EnhMkdir
    \/ EnhScanReturn
    \/ EnhAnalysisReturn
    \/ EnhFixKey
    \/ EnhFixReturn
    \/ EnhRenderReturn
    \/ EnhCleanup
    \/ ReportRequest

SpecReport == InitEnh /\ [][NextReport]_vars

(* ---------------- server.js when the outside does not answer ---------------- *)

\* exec is called with { maxBuffer } only (install.sh 123): Node's default
\* timeout of 0, no timeout
ExecTimeout == 0

\* axios.get is called with the URL only (install.sh 158): axios' default
\* timeout of 0, no timeout
AxiosTimeout == 0

\* the scanner and the site answer, or one of them accepts the call and
\* never answers
Environments == [scanner : {"responds", "silent"}, upstream : {"responds", "silent"}]

\* a call to a party settles when the party answers or a timeout ends it
settles(party, timeout) == party = "responds" \/ timeout > 0

\* fetchAppleGuidelines of server.js (install.sh 156-184): sections may be
\* empty, and the promise never rejects
fetchAppleGuidelinesPlain(up, t) ==
    IF up.ok
    THEN [lastUpdated |-> t, url |-> GuidelinesUrl, sections |-> scrape(up.page, 1),
          error |-> ""]
    ELSE [lastUpdated |-> t, url |-> GuidelinesUrl, sections |-> <<>>,
          error |-> "Failed to fetch live guidelines"]

\* GET /api/guidelines of server.js, up to the await of line 196
GlRequest ==
    /\ gl.pc = "idle"
    /\ gl' = [gl EXCEPT !.pc = "fetching"]
    /\ UNCHANGED <<cacheVars, pdf, enh, env, health, dl>>

\* axios.get settles and res.json(guidelines) is sent (lines 196-197)
GlFetchReturn ==
    /\ gl.pc = "fetching"
    /\ settles(env.upstream, AxiosTimeout)
    /\ \E up \in Upstreams :
         /\ env.upstream = "silent" => ~up.ok
         /\ gl' = [gl EXCEPT !.pc = "done", !.res = fetchAppleGuidelinesPlain(up, now)]
    /\ UNCHANGED <<cacheVars, pdf, enh, env, health, dl>>

\* the exec callback of runGreenlight runs (install.sh 123-130)
EnhScanSettles ==
    /\ settles(env.scanner, ExecTimeout)
    /\ EnhScanReturn

InitLive ==
    /\ CacheInit /\ pdf = PdfIdle /\ enh = EnhStart /\ gl = GlIdle /\ env \in Environments
    /\ health = NoHealth /\ dl = NoDownload

NextLive ==
    \/ EnhRequest
    \/ EnhMkdir
    \/ EnhScanSettles
    \/ EnhAnalysisReturn
    \/ EnhFixKey
    \/ EnhFixReturn
    \/ EnhRenderReturn
    \/ EnhCleanup
    \/ GlRequest
    \/ GlFetchReturn

\* every step of a handler that can run does run: the event loop resumes a
\* handler whose awaited call has settled
FairLive ==
    /\ WF_vars(EnhMkdir)
    /\ WF_vars(EnhScanSettles)
    /\ WF_vars(EnhAnalysisReturn)
    /\ WF_vars(EnhFixKey)
    /\ WF_vars(EnhFixReturn)
    /\ WF_vars(EnhRenderReturn)
    /\ WF_vars(EnhCleanup)
    /\ WF_vars(GlFetchReturn)

SpecLive == InitLive /\ [][NextLive]_vars /\ FairLive

(* ---------------- the claims ---------------- *)

\* the fetch of handler p settles in this step
Completes(p) == reqs[p].pc = "fetching" /\ reqs'[p].pc = "idle" /\ done'.proc = p

\* handler p calls getCachedGuidelines in this step (it had not before)
Called(p) ==
    /\ reqs[p].pc \in {"idle", "scanning"}
    /\ \/ reqs'[p].pc = "fetching" /\ reqs'[p].kind \in GetKinds
       \/ /\ reqs'[p].pc = "idle"
          /\ done' # done
          /\ done'.proc = p
          /\ done'.kind \in GetKinds
          /\ done'.ret.state # "none"

\* the entry is inside the freshness window at this instant
FreshNow == guidelinesCache # NullDoc /\ now - cacheTimestamp < CACHE_DURATION

\* C1: when the fetch of a getCachedGuidelines call fails and an entry
\* exists, the call returns that entry's document marked cached and stale,
\* does not raise, and the entry is still the entry afterwards.
C1_StaleServed ==
    [][\A p \in Procs :
         (Completes(p) /\ reqs[p].kind \in GetKinds /\ done'.up = "fail"
            /\ guidelinesCache # NullDoc)
         => /\ done'.ret.state = "returned"
            /\ Content(done'.ret.value) = Content(guidelinesCache)
            /\ done'.ret.value.cached
            /\ done'.ret.value.stale
            /\ guidelinesCache' = guidelinesCache]_vars

\* C2: a forced refresh always attempts a fetch, and when that fetch fails
\* the caller gets an error response, not a substituted document.
C2_RefreshFailureSurfaces ==
    (done.pc = "done" /\ done.kind = "refresh")
    => /\ done.up # "none"
       /\ done.up = "fail" => (done.res.status = 500
                               /\ done.res.guidelines = NoGuidelines)

\* C3: getCachedGuidelines raises exactly when its fetch fails and no entry
\* exists; in every other case it returns a document.
C3_FailsOnlyWithoutEntry ==
    [][\A p \in Procs :
         (Completes(p) /\ reqs[p].kind \in GetKinds)
         => ((done'.ret.state = "threw")
               <=> (done'.up = "fail" /\ guidelinesCache = NullDoc))]_vars

\* C4: the stored timestamp never decreases.
C4_TimestampMonotonic == [][cacheTimestamp' >= cacheTimestamp]_vars

\* C5: at most one upstream fetch is outstanding at any time.
C5_OneFetchOutstanding ==
    Cardinality({p \in Procs : reqs[p].pc = "fetching"}) <= 1

\* C6: at every point where a handler can run, the stored document and the
\* stored timestamp are both absent or both present, and were written by
\* the same fill.
C6_EntryAtomic ==
    /\ (guidelinesCache = NullDoc) <=> (cacheTimestamp = NullTs)
    /\ docFill = tsFill

\* C6 witness: a later fetch filled the cache first and the earlier one
\* overwrote it
C6_Witness ==
    /\ guidelinesCache # NullDoc
    /\ docFill = 1
    /\ done.pc = "done" /\ done.fill = 1
    /\ fetches = 2
    /\ \A p \in Procs : reqs[p].pc = "idle"

\* C7: a getCachedGuidelines call fetches if and only if there is no entry
\* or now - cacheTimestamp >= 24 h; otherwise it returns the entry marked
\* cached with its age in minutes and fetches nothing.
C7_FetchIffNotFresh ==
    [][\A p \in Clients :
         Called(p)
         => IF guidelinesCache # NullDoc /\ now - cacheTimestamp < 24 * 60 * 60 * 1000
            THEN /\ reqs'[p].pc = "idle"
                 /\ done'.ret.state = "returned"
                 /\ Content(done'.ret.value) = Content(guidelinesCache)
                 /\ done'.ret.value.cached
                 /\ done'.ret.value.cacheAge = (now - cacheTimestamp) \div 60000
                 /\ fetches' = fetches
                 /\ \A q \in Procs : reqs'[q].pc # "fetching" \/ reqs[q].pc = "fetching"
            ELSE /\ reqs'[p].pc = "fetching"
                 /\ fetches' = fetches + 1]_vars

\* C7 witness: a call answered from an entry one millisecond short of the
\* window (1439 minutes old)
C7_Witness ==
    /\ done.pc = "done" /\ done.kind \in GetKinds
    /\ done.ret.state = "returned"
    /\ done.ret.value.cached
    /\ done.ret.value.cacheAge = 1439
    /\ done.fill = 0

\* C8: a getCachedGuidelines miss whose fetch succeeds stores the fetched
\* document and returns it unmarked (neither cached nor stale); a later call
\* inside the window, while that document is still the entry, returns the
\* same content.
C8_MissStoresAndReturns ==
    [][/\ \A p \in Procs :
            (Completes(p) /\ reqs[p].kind \in GetKinds /\ done'.up = "ok")
            => /\ done'.ret.state = "returned"
               /\ ~done'.ret.value.cached
               /\ ~done'.ret.value.stale
               /\ done'.ret.value.lastUpdated = now
               /\ Content(guidelinesCache') = Content(done'.ret.value)
               /\ docFill' = reqs[p].fill
       /\ \A p \in Clients :
            (Called(p) /\ reqs'[p].pc = "idle" /\ done.pc = "done"
               /\ done.kind \in GetKinds /\ done.up = "ok"
               /\ docFill = done.fill)
            => /\ Content(done'.ret.value) = Content(done.ret.value)
               /\ guidelinesCache' = guidelinesCache]_vars

\* C8 witness: the startup miss fetched a page, and a later call was
\* answered from it
C8_Witness ==
    /\ done.pc = "done" /\ done.kind = "get"
    /\ done.ret.state = "returned" /\ done.ret.value.cached
    /\ docFill = 1
    /\ guidelinesCache.error = ""
    /\ guidelinesCache.sections # fallbackGuidelines
    /\ Content(done.ret.value) = Content(guidelinesCache)

\* C9: a getCachedGuidelines call that finds a fresh entry returns it in the
\* same step, whatever fetches are in flight, and leaves them in flight.
C9_FreshReadNeverWaits ==
    [][\A p \in Clients :
         (Called(p) /\ FreshNow /\ \E q \in Procs : q # p /\ reqs[q].pc = "fetching")
         => /\ reqs'[p].pc = "idle"
            /\ done'.ret.state = "returned"
            /\ done'.ret.value.cached
            /\ Content(done'.ret.value) = Content(guidelinesCache)
            /\ \A q \in Procs : q # p => reqs'[q] = reqs[q]]_vars

\* C9 witness: a call was answered from the cache while the startup fetch
\* was (and still is) in flight
C9_Witness ==
    /\ reqs[0].pc = "fetching"
    /\ done.pc = "done" /\ done.kind \in GetKinds
    /\ done.ret.state = "returned" /\ done.ret.value.cached
    /\ done.fill = 0

\* C10: a scan whose guideline fetch fails, made after a successful fetch
\* whose document is the entry, answers with that document marked stale.
C10_ScanServesStale ==
    [][\A p \in Clients :
         (Completes(p) /\ reqs[p].kind = "upload" /\ done'.up = "fail"
            /\ guidelinesCache # NullDoc
            /\ guidelinesCache.error = ""
            /\ guidelinesCache.lastUpdated < reqs[p].now)
         => /\ done'.res.status = 200
            /\ done'.res.guidelines.stale
            /\ Len(done'.res.guidelines.sections) > 0
            /\ Content(done'.res.guidelines) = Content(guidelinesCache)]_vars

\* C11: every upload scan whose scanner produced output is answered 200
\* with guidelines from getCachedGuidelines; when the guideline fetch fails
\* with no entry to fall back on, the answer is still 200, with no
\* guidelines (none).
C11_ScanSurvivesGuidelineFailure ==
    [][\A p \in Clients :
         (Completes(p) /\ reqs[p].kind = "upload")
         => /\ done'.res.status = 200
            /\ IF done'.up = "fail" /\ guidelinesCache = NullDoc
               THEN done'.res.guidelines = NoGuidelines
               ELSE done'.res.guidelines = done'.ret.value]_vars

(* ---------------- claims about the renderer ---------------- *)

RECURSIVE SumHeights(_)
SumHeights(page) ==
    IF page = <<>> THEN 0 ELSE Head(page).h + SumHeights(Tail(page))

RECURSIVE FlatItems(_, _)
\* the items of the blocks of one kind, read page by page
FlatItems(pages, kind) ==
    IF pages = <<>> THEN <<>>
    ELSE LET pg == Head(pages)
             idx == { j \in DOMAIN pg : pg[j].kind = kind }
             RECURSIVE pick(_)
             pick(j) == IF j > Len(pg) THEN <<>>
                        ELSE (IF j \in idx THEN <<pg[j].item>> ELSE <<>>) \o pick(j + 1)
         IN pick(1) \o FlatItems(Tail(pages), kind)

\* the height a page body offers
BodyHeight == PageBodyLimit - MarginTop

\* the band a colour value paints
bandOf(color) ==
    IF color \in {"#EF4444", "#dc2626"} THEN "red"
    ELSE IF color \in {"#F59E0B", "#f59e0b"} THEN "amber"
    ELSE IF color \in {"#3B82F6", "#3b82f6"} THEN "blue"
    ELSE IF color \in {"#6B7280", "#6b7280"} THEN "gray"
    ELSE "none"

FindingBlocks ==
    { b \in UNION { { pdf.pages[k][j] : j \in DOMAIN pdf.pages[k] } : k \in DOMAIN pdf.pages } :
        b.kind = "finding" }

\* C12: in a finished render no page's summed block heights exceed the page
\* body, unless the page holds a single block that is itself taller.
C12_PagesFit ==
    pdf.pc = "done"
    => \A k \in DOMAIN pdf.pages :
         \/ SumHeights(pdf.pages[k]) <= BodyHeight
         \/ Len(pdf.pages[k]) = 1 /\ pdf.pages[k][1].h > BodyHeight

\* C13: a block taller than the page body is the first block of its page
\* and starts at the top margin.
C13_OversizedOnFreshPage ==
    pdf.pc # "idle"
    => \A k \in DOMAIN pdf.pages : \A j \in DOMAIN pdf.pages[k] :
         pdf.pages[k][j].h > BodyHeight
         => j = 1 /\ pdf.pages[k][j].y = MarginTop

\* C14: the finding blocks, then the recommendation blocks, read page by
\* page are the input findings / recommendations placed so far, in input
\* order, each once.
C14_OrderPreserved ==
    pdf.pc # "idle"
    => /\ FlatItems(pdf.pages, "finding")
            = SubSeq(pdf.findings, 1,
                     IF pdf.pc = "start" THEN 0
                     ELSE IF pdf.pc = "findings" THEN pdf.i - 1
                     ELSE Len(pdf.findings))
       /\ FlatItems(pdf.pages, "rec")
            = SubSeq(pdf.aiAnalysis.recommendations, 1,
                     IF pdf.pc = "recs" THEN pdf.i - 1
                     ELSE IF pdf.pc = "done" /\ pdf.aiAnalysis.present
                          THEN Len(pdf.aiAnalysis.recommendations)
                     ELSE 0)

\* C14 witness: a finished render whose two findings, not in severity
\* order, are separated by a page break
C14_Witness ==
    /\ pdf.pc = "done"
    /\ Len(pdf.findings) = 2
    /\ pdf.findings[1].severity = S_WARNING
    /\ pdf.findings[2].severity = S_CRITICAL
    /\ Len(pdf.pages) = 3
    /\ Len(pdf.aiAnalysis.recommendations) = 2

\* C15: a finished render ends with one footer page holding only the
\* footer block, no other page holds a footer, and there are at least two
\* pages.
C15_FooterPage ==
    pdf.pc = "done"
    => /\ Len(pdf.pages) >= 2
       /\ Len(pdf.pages[Len(pdf.pages)]) = 1
       /\ pdf.pages[Len(pdf.pages)][1].kind = "footer"
       /\ Len(FlatItems(pdf.pages, "footer")) = 1

\* C15 witness: the render of a result with no findings and no analysis
C15_Witness ==
    /\ pdf.pc = "done"
    /\ pdf.findings = <<>>
    /\ ~pdf.aiAnalysis.present
    /\ Len(pdf.pages) = 2

\* C16: the band of a finding block is red for CRITICAL, amber for WARNING,
\* blue for INFO and gray for every other severity value.
C16_SeverityBandTable ==
    \A b \in FindingBlocks :
        bandOf(b.color) = IF b.item.severity = S_CRITICAL THEN "red"
                          ELSE IF b.item.severity = S_WARNING THEN "amber"
                          ELSE IF b.item.severity = S_INFO THEN "blue"
                          ELSE "gray"

\* C17: the PDF badge and the browser badge of a severity value are of the
\* same band.
C17_SameBandEverywhere ==
    \A b \in FindingBlocks :
        bandOf(b.color) = bandOf(getSeverityColor(b.item.severity))

(* ---------------- claims about the enhanced scan ---------------- *)

\* the number of findings of one severity
Tally(findings, severity) ==
    Cardinality({ j \in DOMAIN findings : findings[j].severity = severity })

\* the handler has its scan result (the scanner's or the built-in one)
HasScanResult == enh.pc \in {"analyzing", "fixkey", "fixing", "rendering", "cleanup", "done"}

\* C18: every scan result with findings that reaches the report has counts
\* equal to the tally of its findings by severity.
C18_CountsMatchFindings ==
    (enh.pc \in {"rendering", "cleanup", "done"} /\ ~enh.scanResults.null
       /\ enh.scanResults.findings # <<>>)
    => /\ enh.scanResults.summary.critical = Tally(enh.scanResults.findings, S_CRITICAL)
       /\ enh.scanResults.summary.warnings = Tally(enh.scanResults.findings, S_WARNING)
       /\ enh.scanResults.summary.info = Tally(enh.scanResults.findings, S_INFO)

\* C19: when the scanner's output is not JSON, the scan result has status
\* UNKNOWN and no findings (and the raw text kept with it).
C19_ParseFailureIsUnknown ==
    (HasScanResult /\ enh.scanOut.stdout.kind = "text")
    => /\ enh.scanResults.summary.status = "UNKNOWN"
       /\ enh.scanResults.findings = <<>>

\* C20: an enhanced scan is answered with a failure only when the scanner
\* invocation errored and printed nothing.
C20_FailureOnlyWithoutOutput ==
    (enh.pc = "done" /\ enh.res.status = 500)
    => runGreenlightEnh(enh.scanOut).rejected

\* the analysis call failed, or a fix-suggestion call did
EnrichmentFailed ==
    \/ enh.aiOut.kind \in {"nokey", "throws", "nojson", "badjson"}
    \/ enh.key /\ \E j \in DOMAIN enh.enhanced : enh.enhanced[j].fixSuggestion = "absent"

\* C21: a finished enhanced scan whose enrichment failed (and whose report
\* was written) is answered 200 with the error recorded in the analysis
\* data.
C21_EnrichmentDegrades ==
    (enh.pc = "done" /\ enh.report /\ enh.host /\ EnrichmentFailed)
    => /\ enh.res.status = 200
       /\ enh.res.results.aiAnalysis.error # ""

\* a finding equals another in every field except the suggested fix
SameButFix(g, f) == [g EXCEPT !.fixSuggestion = f.fixSuggestion] = f

\* C22: generateFixSuggestions keeps length and order: finding j of its
\* output (so far, and when it is done) is finding j of its input in every
\* field except the suggested fix, and is the input finding itself when
\* its call failed.
C22_FixesKeepFindings ==
    (enh.pc \in {"fixing", "rendering", "cleanup", "done"} /\ ~enh.scanResults.null)
    => /\ Len(enh.scanResults.findings) = Len(enh.original)
       /\ \A j \in DOMAIN enh.scanResults.findings :
            SameButFix(enh.scanResults.findings[j], enh.original[j])
       /\ enh.key =>
            /\ Len(enh.enhanced) = enh.i - 1
            /\ \A j \in DOMAIN enh.enhanced :
                 /\ SameButFix(enh.enhanced[j], enh.original[j])
                 /\ enh.enhanced[j].fixSuggestion = "absent"
                      => enh.enhanced[j] = enh.original[j]
            /\ enh.pc # "fixing" => enh.scanResults.findings = enh.enhanced

\* C22 witness: two findings, the call for the first failed and the call
\* for the second succeeded
C22_Witness ==
    /\ enh.pc = "done"
    /\ enh.res.status = 200
    /\ Len(enh.res.results.findings) = 2
    /\ enh.res.results.findings[1].fixSuggestion = "absent"
    /\ enh.res.results.findings[2].fixSuggestion = "suggested"
    /\ enh.res.results.findings[1].severity = S_WARNING

\* C24: the steps of one enhanced scan do not overlap: the analysis has
\* settled only after the scanner has, fix-suggestion calls are issued only
\* after the analysis settled and one at a time, rendering starts only when
\* every issued call has settled, and a 200 is sent only after the report
\* was written.
C24_StepsSequential ==
    /\ enh.aiOut # NoAi => enh.scanOut # NoExec
    /\ enh.calls # <<>> => enh.aiOut # NoAi
    /\ enh.pc \in {"idle", "mkdir", "scanning", "hung"}
         => enh.scanOut = NoExec /\ enh.aiOut = NoAi
    /\ enh.pc = "analyzing" => enh.aiOut = NoAi /\ enh.calls = <<>>
    /\ enh.pc = "fixkey" => enh.calls = <<>>
    /\ enh.pc = "fixing" => Len(enh.calls) = Len(enh.enhanced) + 1
    /\ enh.pc \in {"rendering", "cleanup", "done"} => Len(enh.calls) = Len(enh.enhanced)
    /\ enh.pc \in {"fixkey", "fixing", "rendering"} => ~enh.report /\ enh.res = NoEnhRes
    /\ enh.res.status = 200 => enh.report
    /\ enh.res # NoEnhRes => enh.pc = "done"

\* C24 witness: a request answered 200 after two fix-suggestion calls
C24_Witness ==
    /\ enh.pc = "done"
    /\ enh.res.status = 200
    /\ enh.calls = <<1, 2>>
    /\ enh.report

\* the renderer was called and did not write the report
PdfWriteFailed == ~enh.scanResults.null /\ ~enh.report

\* C28: every enhanced scan of an uploaded IPA is answered 200 with a
\* report, unless writing the PDF failed.
C28_DegradedReportBeatsNone ==
    (enh.pc = "done" /\ enh.res.status # 400 /\ ~PdfWriteFailed)
    => enh.res.status = 200 /\ enh.res.pdfReport

(* ---------------- further claims about the caching server ---------------- *)

\* C23: an upload whose scanner printed a JSON result, finished by a failed
\* guideline fetch with no cache entry, is answered with that result and
\* with no guidelines (none).
C23_WorkedExample ==
    [][\A p \in Clients :
         (Completes(p) /\ reqs[p].kind = "upload" /\ reqs[p].results = "parsed"
            /\ done'.up = "fail" /\ guidelinesCache = NullDoc)
         => /\ done'.res.status = 200
            /\ done'.res.results = "parsed"
            /\ done'.res.guidelines = NoGuidelines]_vars

\* C25: whenever a scan request has been answered, the IPA it stored is no
\* longer on disk.
C25_IpaDeletedByResponse ==
    (done.pc = "done" /\ done.kind \in ScanKinds /\ done.res.status # 0)
    => ~done.ipaOnDisk

\* handler p's fetch failed and settles in this step
FailedFetchSettles(p) ==
    /\ reqs[p].pc = "fetching"
    /\ reqs'[p].pc = "idle"
    /\ done'.proc = p
    /\ done'.up = "fail"

\* the stored entry after the step is the built-in fallback document
FallbackStored ==
    /\ guidelinesCache' # NullDoc
    /\ guidelinesCache'.sections = fallbackGuidelines
    /\ guidelinesCache'.error = FallbackError

\* a get() that finds the stored fallback inside its window returns it
\* marked cached, without a fetch
FallbackServedFromCache ==
    \A p \in Clients :
        (Called(p) /\ FreshNow /\ guidelinesCache.error = FallbackError)
        => /\ done'.proc = p
           /\ done'.ret.state = "returned"
           /\ Content(done'.ret.value) = Content(guidelinesCache)
           /\ done'.ret.value.cached
           /\ done'.ret.value.error = FallbackError
           /\ fetches' = fetches
           /\ guidelinesCache' = guidelinesCache

LiveSections == { scrape(pg, 1) : pg \in Pages } \ { <<>> }

GoodSections(doc) ==
    /\ Len(doc.sections) > 0
    /\ doc.sections = fallbackGuidelines \/ doc.sections \in LiveSections
    /\ doc.error = FallbackError => doc.sections = fallbackGuidelines

\* C30: every document stored or returned by the caching server has a
\* non-empty sections list, which is the five-section built-in set when the
\* upstream failed or its page gave no section.
C30_SectionsNonEmpty ==
    /\ Len(fallbackGuidelines) = 5
    /\ guidelinesCache # NullDoc => GoodSections(guidelinesCache)
    /\ done.ret.state = "returned" => GoodSections(done.ret.value)
    /\ done.res.guidelines # NoGuidelines => GoodSections(done.res.guidelines)
    /\ (done.up = "fail" /\ done.ret.state = "returned" /\ ~done.ret.value.cached)
         => done.ret.value.sections = fallbackGuidelines

\* C30 witness: the upstream answered with a page that has no section and
\* the response carries the built-in set
C30_Witness ==
    /\ done.pc = "done"
    /\ done.up = "ok"
    /\ done.res.status = 200
    /\ done.res.guidelines # NoGuidelines
    /\ done.res.guidelines.sections = fallbackGuidelines
    /\ done.res.guidelines.error = ""

(* ---------------- claims about calls that never answer ---------------- *)

\* C26: a request that reads guidelines is answered eventually, even when
\* the guideline site never responds.
C26_GuidelineReadReturns ==
    (gl.pc = "fetching") ~> (gl.pc = "done")

\* C27: an enhanced scan that has started its scanner is answered
\* eventually, even when the scanner never responds.
C27_ScanEventuallyAnswered ==
    (enh.pc \in {"scanning", "analyzing", "fixkey", "fixing", "rendering", "cleanup"})
      ~> (enh.pc = "done")

(* ---------------- further claims about the renderer and the enhanced scan ---------------- *)

AllBlocks ==
    UNION { { pdf.pages[k][j] : j \in DOMAIN pdf.pages[k] } : k \in DOMAIN pdf.pages }

\* C33: finding and recommendation blocks start at a cursor of at most 700,
\* the recommendations heading at at most 650; the first block of every
\* page opened for content starts at 50; and no page is left empty (one
\* page break at most before a block).
C33_CursorInvariant ==
    pdf.pc \in {"findings", "recs", "footer", "done"}
    => /\ \A b \in AllBlocks :
            /\ b.kind \in {"finding", "rec"} => b.y <= 700
            /\ b.kind = "heading" => b.y <= 650
       /\ \A k \in DOMAIN pdf.pages :
            /\ pdf.pages[k] # <<>>
            /\ (k > 1 /\ pdf.pages[k][1].kind # "footer") => pdf.pages[k][1].y = 50

\* C33 witness: a finished render in which a page was opened for a finding
\* and another for a recommendation
C33_Witness ==
    /\ pdf.pc = "done"
    /\ \E k \in DOMAIN pdf.pages : k > 1 /\ pdf.pages[k][1].kind = "finding"
    /\ \E k \in DOMAIN pdf.pages : k > 1 /\ pdf.pages[k][1].kind = "rec"

\* the analysis of this request ended in an error
AnalysisFailed == enh.aiOut.kind \in {"nokey", "throws", "nojson", "badjson"}

\* C34: fix-suggestion calls are made only for a non-empty findings list
\* after an analysis without error; after a failed analysis none is made
\* and the findings reach the renderer as the scan step left them.
C34_FixesOnlyAfterAnalysis ==
    /\ enh.pc \in {"fixkey", "fixing"} =>
         /\ enh.original # <<>>
         /\ enh.scanResults.aiAnalysis.error = ""
    /\ enh.calls # <<>> =>
         /\ enh.original # <<>>
         /\ enh.scanResults.aiAnalysis.error = ""
         /\ ~AnalysisFailed
    /\ (AnalysisFailed /\ ~enh.scanResults.null) =>
         /\ enh.calls = <<>>
         /\ enh.pc \in {"rendering", "cleanup", "done"}
         /\ enh.scanResults.findings = scanStep(enh.scanOut).findings

\* C34 witness: the analysis call threw, the scan had two findings, and the
\* request was answered without a fix-suggestion call
C34_Witness ==
    /\ enh.pc = "done"
    /\ enh.res.status = 200
    /\ enh.aiOut.kind = "throws"
    /\ Len(enh.res.results.findings) = 2
    /\ enh.calls = <<>>

\* C35: the fix-suggestion calls are issued one at a time, for finding 1,
\* 2, ... in order, each once, and a failed call is followed by the call
\* for the next finding.
C35_OneCallAtATime ==
    /\ \A j \in DOMAIN enh.calls : enh.calls[j] = j
    /\ Len(enh.calls) <= Len(enh.original)
    /\ enh.pc = "fixing" =>
         /\ Len(enh.calls) - Len(enh.enhanced) = 1
         /\ enh.i = Len(enh.calls)
    /\ enh.pc # "fixing" => Len(enh.calls) = Len(enh.enhanced)
    /\ (enh.key /\ enh.pc \in {"rendering", "cleanup", "done"}) =>
         Len(enh.calls) = Len(enh.original)

\* C35 witness: the call for the first finding failed and the call for the
\* second is outstanding
C35_Witness ==
    /\ enh.pc = "fixing"
    /\ enh.calls = <<1, 2>>
    /\ Len(enh.enhanced) = 1
    /\ enh.enhanced[1].fixSuggestion = "absent"

(* ---------------- claims about GET /health and the stored entry ---------------- *)

\* C31: whenever /health answers, it reports cached and not stale exactly
\* when a get() at that instant would be served from the cache.
C31_HealthAgreesWithGet ==
    [][Health =>
         ((health'.cached /\ ~health'.stale)
            <=> IsFresh(guidelinesCache, cacheTimestamp, now))]_vars

\* the fields getCachedGuidelines and the refresh route add to a response
Annotations == {"cached", "cacheAge", "stale", "message"}

C36_ReportPublishedComplete ==
    [][/\ enh'.res.status = 200 => reportFile' = "complete"
       /\ enh'.pc = "rendering" => reportFile' = "partial"
       /\ reportFile = "complete" => reportFile' = "complete"
       /\ (dl'.asked /\ dl'.known) => dl'.status = 200 /\ dl'.content = "complete"]_vars

\* C36 witness: the report of an answered scan has been requested, after
\* an earlier look at the file had been possible only without its scanId
C36_Witness ==
    /\ enh.pc = "done"
    /\ enh.res.status = 200
    /\ enh.res.pdfReport
    /\ dl.asked
    /\ dl.known
    /\ dl.status = 200

\* C37: a handler run that has ended has sent a response.
C37_ExactlyOneResponse ==
    enh.pc \in {"done", "hung"} => enh.res # NoEnhRes

====
